---- MODULE Spec2Model ----
(***************************************************************************)
(* Model of src/static_analysis/certificate.rs: certificate_analysis walks *)
(* the META-INF directory, runs openssl on every *.RSA / *.DSA entry,      *)
(* scans the decoded text for the issuer, the subject and the not-after    *)
(* date, and records findings in the results store.                        *)
(*                                                                         *)
(* A Rust string is a sequence of one-character strings, so that slicing,  *)
(* contains(), split() and parse() are computed as the code computes them. *)
(***************************************************************************)
EXTENDS Integers, Sequences, FiniteSets, TLC

\* The directory iterator yields at most MaxEntries entries in one run.
MaxEntries == 2

----------------------------------------------------------------------------
(* Option<T> *)
None == [some |-> FALSE, val |-> <<>>]
Some(v) == [some |-> TRUE, val |-> v]

(* &s[a..b]: byte offsets, 0-based, half-open (all text here is ASCII) *)
Slice(s, a, b) == SubSeq(s, a + 1, b)

(* first index >= i at which pat occurs in s, 0 when it occurs nowhere *)
RECURSIVE find_from(_, _, _)
find_from(s, pat, i) ==
    IF i + Len(pat) - 1 > Len(s) THEN 0
    ELSE IF SubSeq(s, i, i + Len(pat) - 1) = pat THEN i
    ELSE find_from(s, pat, i + 1)

(* str::contains *)
contains(s, pat) == find_from(s, pat, 1) # 0

(* str::split(pat), collected: never empty, the matches do not overlap *)
RECURSIVE split(_, _)
split_at(s, pat, i) ==
    IF i = 0 THEN <<s>>
    ELSE <<SubSeq(s, 1, i - 1)>> \o split(SubSeq(s, i + Len(pat), Len(s)), pat)

split(s, pat) == split_at(s, pat, find_from(s, pat, 1))

(* Iterator::nth(1) on a fresh iterator: the second item *)
nth1(tokens) == IF Len(tokens) >= 2 THEN Some(tokens[2]) ELSE None

(* a second nth(1) on the same iterator skips one item and yields the fourth *)
nth1_again(tokens) == IF Len(tokens) >= 4 THEN Some(tokens[4]) ELSE None

(* str::lines: split at "\n", a final empty piece dropped, one trailing "\r" cut *)
strip_cr(l) == IF Len(l) > 0 /\ l[Len(l)] = "\r" THEN SubSeq(l, 1, Len(l) - 1) ELSE l

drop_final_empty(parts) ==
    IF parts[Len(parts)] = <<>> THEN SubSeq(parts, 1, Len(parts) - 1) ELSE parts

strip_each(kept) == [i \in 1..Len(kept) |-> strip_cr(kept[i])]

lines(s) == strip_each(drop_final_empty(split(s, <<"\n">>)))

(* str::parse for i32 (signed) and u32: an optional sign, then digits only *)
DigitChars == {"0", "1", "2", "3", "4", "5", "6", "7", "8", "9"}

digit_value(c) ==
    CASE c = "0" -> 0 [] c = "1" -> 1 [] c = "2" -> 2 [] c = "3" -> 3 [] c = "4" -> 4
      [] c = "5" -> 5 [] c = "6" -> 6 [] c = "7" -> 7 [] c = "8" -> 8 [] c = "9" -> 9

RECURSIVE digits_value(_)
digits_value(ds) ==
    IF ds = <<>> THEN 0
    ELSE digits_value(SubSeq(ds, 1, Len(ds) - 1)) * 10 + digit_value(ds[Len(ds)])

parse(s, signed) ==
    IF s = <<>> THEN None
    ELSE IF s[1] \in {"+", "-"} /\ Len(s) = 1 THEN None
    ELSE LET neg    == signed /\ s[1] = "-"
             digits == IF s[1] = "+" \/ neg THEN Tail(s) ELSE s
         IN  IF \A i \in 1..Len(digits) : digits[i] \in DigitChars
             THEN Some(IF neg THEN 0 - digits_value(digits) ELSE digits_value(digits))
             ELSE None

----------------------------------------------------------------------------
(* parse_month *)
parse_month(month_str) ==
    CASE month_str = <<"J","a","n">> -> 1
      [] month_str = <<"F","e","b">> -> 2
      [] month_str = <<"M","a","r">> -> 3
      [] month_str = <<"A","p","r">> -> 4
      [] month_str = <<"M","a","y">> -> 5
      [] month_str = <<"J","u","n">> -> 6
      [] month_str = <<"J","u","l">> -> 7
      [] month_str = <<"A","u","g">> -> 8
      [] month_str = <<"S","e","p">> -> 9
      [] month_str = <<"O","c","t">> -> 10
      [] month_str = <<"N","o","v">> -> 11
      [] month_str = <<"D","e","c">> -> 12
      [] OTHER -> 0

(* Path::extension of a file name: the part after the last ".", none when the *)
(* name has no "." or only a leading one                                      *)
extension(name) ==
    LET dots == {i \in 1..Len(name) : name[i] = "."}
        last == CHOOSE i \in dots : \A j \in dots : j <= i
    IN  IF dots = {} THEN None
        ELSE IF last = 1 THEN None
        ELSE Some(SubSeq(name, last + 1, Len(name)))

(* is_cert: the extension is "RSA" or "DSA", compared exactly.             *)
(* is_cert_ignoring_case is the faulty variant that also takes lower case.  *)
is_cert_ignoring_case(name) ==
    LET e == extension(name)
    IN  e.some /\ e.val \in {<<"R","S","A">>, <<"D","S","A">>, <<"r","s","a">>, <<"d","s","a">>}

is_cert(name) ==
    LET e == extension(name)
    IN  e.some /\ (e.val = <<"R","S","A">> \/ e.val = <<"D","S","A">>)

----------------------------------------------------------------------------
(* The field scan: the last line of cmd that contains the label, "" when no *)
(* line does                                                                *)
RECURSIVE last_containing(_, _, _)
last_containing(ls, label, i) ==
    IF i = 0 THEN <<>>
    ELSE IF contains(ls[i], label) THEN ls[i]
    ELSE last_containing(ls, label, i - 1)

RECURSIVE first_containing(_, _, _)
first_containing(ls, label, i) ==
    IF i > Len(ls) THEN <<>>
    ELSE IF contains(ls[i], label) THEN ls[i]
    ELSE first_containing(ls, label, i + 1)

(* field_line: every matching line overwrites the field, so the last one   *)
(* stays. field_line_first_match is the faulty variant keeping the first.  *)
field_line_first_match(ls, label) == first_containing(ls, label, 1)

field_line(ls, label) == last_containing(ls, label, Len(ls))

(* lines 110-123: the three labelled lines of the decoded text *)
scan_lines(ls) ==
    [issuer  |-> field_line(ls, <<"I","s","s","u","e","r",":">>),
     subject |-> field_line(ls, <<"S","u","b","j","e","c","t",":">>),
     after   |-> field_line(ls, <<"N","o","t"," ","A","f","t","e","r"," ",":">>)]

scan(cmd) == scan_lines(lines(cmd))

(* issuer.split(": ").nth(1), before the unwrap. issuer_value_or_empty is *)
(* the faulty variant that turns a missing value into an empty one.        *)
unwrap_or_empty(v) == IF v.some THEN v ELSE Some(<<>>)

issuer_value_or_empty(issuer) == unwrap_or_empty(nth1(split(issuer, <<":"," ">>)))

issuer_value(issuer) == nth1(split(issuer, <<":"," ">>))

(* issuer.nth(1) == subject.nth(1): the issuer iterator has already been    *)
(* advanced past its second item; neither side is unwrapped                 *)
self_signed(issuer, subject) ==
    nth1_again(split(issuer, <<":"," ">>)) = nth1(split(subject, <<":"," ">>))

(* after.split(": ").nth(1), before the unwrap *)
after_value(after) == nth1(split(after, <<":"," ">>))

(* cert_day: after[4..6] as u32, else after[5..6] as u32.                  *)
(* cert_day_second_char_only is the faulty variant without the first try. *)
cert_day_second_char_only(after) == parse(Slice(after, 5, 6), FALSE)

or_else_second_char(both, after) ==
    IF both.some THEN both ELSE parse(Slice(after, 5, 6), FALSE)

cert_day(after) == or_else_second_char(parse(Slice(after, 4, 6), FALSE), after)

(* the parsed not-after date; ok = FALSE stands for a panic (a slice out of *)
(* range or an unwrap of a failed parse)                                    *)
NoDate == [ok |-> FALSE, year |-> 0, month |-> 0, day |-> 0]

date_of(cert_year, cert_month, day) ==
    IF cert_year.some /\ day.some
    THEN [ok |-> TRUE, year |-> cert_year.val, month |-> cert_month, day |-> day.val]
    ELSE NoDate

cert_date(after) ==
    IF Len(after) < 20 THEN NoDate
    ELSE date_of(parse(Slice(after, 16, 20), TRUE),
                 parse_month(Slice(after, 0, 3)),
                 cert_day(after))

(* lines 156-162: the unwrap of the not-after value, then the date *)
date_of_value(v) == IF v.some THEN cert_date(v.val) ELSE NoDate

not_after(after) == date_of_value(after_value(after))


(* the expiration test. expired_day_inclusive (day >= cert_day) and        *)
(* expired_unchained (month compared whatever the years) are faulty        *)
(* variants of it.                                                         *)
expired_day_inclusive(year, month, day, cert_year, cert_month, cert_day_) ==
    \/ year > cert_year
    \/ (year = cert_year /\ month > cert_month)
    \/ (year = cert_year /\ month = cert_month /\ day >= cert_day_)

expired_unchained(year, month, day, cert_year, cert_month, cert_day_) ==
    \/ year > cert_year
    \/ month > cert_month
    \/ (year = cert_year /\ month = cert_month /\ day > cert_day_)

expired(year, month, day, cert_year, cert_month, cert_day_) ==
    \/ year > cert_year
    \/ (year = cert_year /\ month > cert_month)
    \/ (year = cert_year /\ month = cert_month /\ day > cert_day_)

----------------------------------------------------------------------------
(* The results store (results.rs): a certificate text that set_certificate *)
(* replaces and a list of findings that add_vulnerability appends to       *)
NoResults == [certificate |-> None, vulns |-> <<>>]

set_certificate(res, text) == [res EXCEPT !.certificate = Some(text)]

add_vulnerability(res, vuln) == [res EXCEPT !.vulns = Append(@, vuln)]

DebugVulnerability ==
    [criticity |-> "Critical", name |-> "Android Debug Certificate"]

ExpiredVulnerability ==
    [criticity |-> "High", name |-> "Expired certificate"]

----------------------------------------------------------------------------
(* Inputs: what the directory, openssl and the clock can hand to the code *)

(* file names found in META-INF: CERT.RSA, CERT.DSA, CERT.rsa, MANIFEST.MF, *)
(* RSA (no extension) and .RSA (a leading dot only: no extension either)    *)
FileNames ==
    { <<"C","E","R","T",".","R","S","A">>, <<"C","E","R","T",".","D","S","A">>, <<"C","E","R","T",".","r","s","a">>, <<"M","A","N","I","F","E","S","T",".","M","F">>, <<"R","S","A">>, <<".","R","S","A">> }

(* lines of openssl's output *)
\* Line_Head is "Certificate:"
Line_Head         == <<"C","e","r","t","i","f","i","c","a","t","e",":">>
\* Line_IssuerDebug is "        Issuer: C=US, O=Android, CN=Android Debug"
Line_IssuerDebug  == <<" "," "," "," "," "," "," "," ","I","s","s","u","e","r",":"," ","C","=","U","S",","," ","O","=","A","n","d","r","o","i","d",","," ","C","N","=","A","n","d","r","o","i","d"," ","D","e","b","u","g">>
\* Line_IssuerAcme is "        Issuer: C=US, O=Acme, CN=Acme"
Line_IssuerAcme   == <<" "," "," "," "," "," "," "," ","I","s","s","u","e","r",":"," ","C","=","U","S",","," ","O","=","A","c","m","e",","," ","C","N","=","A","c","m","e">>
\* Line_IssuerTwice is "        Issuer: C=US: CN=Android Debug"
Line_IssuerTwice  == <<" "," "," "," "," "," "," "," ","I","s","s","u","e","r",":"," ","C","=","U","S",":"," ","C","N","=","A","n","d","r","o","i","d"," ","D","e","b","u","g">>
\* Line_IssuerNoSep is "        Issuer:CN=Android Debug"
Line_IssuerNoSep  == <<" "," "," "," "," "," "," "," ","I","s","s","u","e","r",":","C","N","=","A","n","d","r","o","i","d"," ","D","e","b","u","g">>
\* Line_SubjectDebug is "        Subject: C=US, O=Android, CN=Android Debug"
Line_SubjectDebug == <<" "," "," "," "," "," "," "," ","S","u","b","j","e","c","t",":"," ","C","=","U","S",","," ","O","=","A","n","d","r","o","i","d",","," ","C","N","=","A","n","d","r","o","i","d"," ","D","e","b","u","g">>
\* Line_SubjectAcme is "        Subject: C=US, O=Acme, CN=Acme"
Line_SubjectAcme  == <<" "," "," "," "," "," "," "," ","S","u","b","j","e","c","t",":"," ","C","=","U","S",","," ","O","=","A","c","m","e",","," ","C","N","=","A","c","m","e">>
\* Line_Jan5_2000 is "            Not After : Jan  5 00:00:00 2000 GMT"
Line_Jan5_2000    == <<" "," "," "," "," "," "," "," "," "," "," "," ","N","o","t"," ","A","f","t","e","r"," ",":"," ","J","a","n"," "," ","5"," ","0","0",":","0","0",":","0","0"," ","2","0","0","0"," ","G","M","T">>
\* Line_Jan15_2000 is "            Not After : Jan 15 00:00:00 2000 GMT"
Line_Jan15_2000   == <<" "," "," "," "," "," "," "," "," "," "," "," ","N","o","t"," ","A","f","t","e","r"," ",":"," ","J","a","n"," ","1","5"," ","0","0",":","0","0",":","0","0"," ","2","0","0","0"," ","G","M","T">>
\* Line_Mar15_2001 is "            Not After : Mar 15 00:00:00 2001 GMT"
Line_Mar15_2001   == <<" "," "," "," "," "," "," "," "," "," "," "," ","N","o","t"," ","A","f","t","e","r"," ",":"," ","M","a","r"," ","1","5"," ","0","0",":","0","0",":","0","0"," ","2","0","0","1"," ","G","M","T">>
\* Line_Xyz15_2000 is "            Not After : Xyz 15 00:00:00 2000 GMT"
Line_Xyz15_2000   == <<" "," "," "," "," "," "," "," "," "," "," "," ","N","o","t"," ","A","f","t","e","r"," ",":"," ","X","y","z"," ","1","5"," ","0","0",":","0","0",":","0","0"," ","2","0","0","0"," ","G","M","T">>
\* Line_ShortDate is "            Not After : Jan  5 2000"
Line_ShortDate    == <<" "," "," "," "," "," "," "," "," "," "," "," ","N","o","t"," ","A","f","t","e","r"," ",":"," ","J","a","n"," "," ","5"," ","2","0","0","0">>
\* Line_BadDay is "            Not After : Jan  x 00:00:00 2000 GMT"
Line_BadDay       == <<" "," "," "," "," "," "," "," "," "," "," "," ","N","o","t"," ","A","f","t","e","r"," ",":"," ","J","a","n"," "," ","x"," ","0","0",":","0","0",":","0","0"," ","2","0","0","0"," ","G","M","T">>
\* Line_BadYear is "            Not After : Jan  5 00:00:00 20x0 GMT"
Line_BadYear      == <<" "," "," "," "," "," "," "," "," "," "," "," ","N","o","t"," ","A","f","t","e","r"," ",":"," ","J","a","n"," "," ","5"," ","0","0",":","0","0",":","0","0"," ","2","0","x","0"," ","G","M","T">>

RECURSIVE text_of(_)
text_of(ls) == IF ls = <<>> THEN <<>> ELSE Head(ls) \o <<"\n">> \o text_of(Tail(ls))

(* decoded texts that the analysis gets through *)
Text_Debug      == text_of(<<Line_Head, Line_IssuerDebug, Line_Jan5_2000, Line_SubjectDebug>>)
Text_Acme       == text_of(<<Line_Head, Line_IssuerAcme, Line_Jan15_2000, Line_SubjectAcme>>)
Text_Acme2001   == text_of(<<Line_Head, Line_IssuerAcme, Line_Mar15_2001, Line_SubjectAcme>>)
Text_BadMonth   == text_of(<<Line_Head, Line_IssuerAcme, Line_Xyz15_2000, Line_SubjectAcme>>)
Text_NoSubject  == text_of(<<Line_Head, Line_IssuerAcme, Line_Jan15_2000>>)
Text_IssuerTwice == text_of(<<Line_Head, Line_IssuerTwice, Line_Jan15_2000, Line_SubjectAcme>>)
Text_ChainDebugFirst ==
    text_of(<<Line_IssuerDebug, Line_Jan5_2000, Line_SubjectDebug,
              Line_IssuerAcme, Line_Jan15_2000, Line_SubjectAcme>>)
Text_ChainDebugLast ==
    text_of(<<Line_IssuerAcme, Line_Jan15_2000, Line_SubjectAcme,
              Line_IssuerDebug, Line_Jan5_2000, Line_SubjectDebug>>)

(* decoded texts on which the analysis panics *)
Text_Empty      == <<>>
Text_NoIssuer   == text_of(<<Line_Head, Line_Jan15_2000, Line_SubjectAcme>>)
Text_IssuerNoSep == text_of(<<Line_Head, Line_IssuerNoSep, Line_Jan15_2000, Line_SubjectAcme>>)
Text_NoAfter    == text_of(<<Line_Head, Line_IssuerDebug, Line_SubjectDebug>>)
Text_ShortDate  == text_of(<<Line_Head, Line_IssuerAcme, Line_ShortDate, Line_SubjectAcme>>)
Text_BadDay     == text_of(<<Line_Head, Line_IssuerAcme, Line_BadDay, Line_SubjectAcme>>)
Text_BadYear    == text_of(<<Line_Head, Line_IssuerDebug, Line_BadYear, Line_SubjectDebug>>)

Texts ==
    { Text_Debug, Text_Acme, Text_Acme2001, Text_BadMonth, Text_NoSubject,
      Text_IssuerTwice, Text_ChainDebugFirst, Text_ChainDebugLast,
      Text_Empty, Text_NoIssuer, Text_IssuerNoSep, Text_NoAfter,
      Text_ShortDate, Text_BadDay, Text_BadYear }

(* readings of the local clock: (year, month, day) *)
Nows ==
    [year : {2000, 2001}, month : {1, 3}, day : {5, 15}]

----------------------------------------------------------------------------
VARIABLES
    pc,            \* where certificate_analysis stands
    listing,       \* the file names the directory iterator has yielded so far
    io_error,      \* "none", "read_dir" (line 42) or "entry" (line 47)
    warnings,      \* calls of print_warning
    output,        \* the last openssl run: "none", "spawn_err", "exit_err", "ok"
    decoder_calls, \* times openssl was run
    cmd,           \* the decoded text of the last candidate
    set_calls,     \* calls of results.set_certificate
    results,       \* the results store
    after,         \* the "Not After :" line the field scan kept
    now,           \* the clock reading of the last expiration check
    cert           \* the not-after date the last expiration check parsed

vars ==
    <<pc, listing, io_error, warnings, output, decoder_calls, cmd, set_calls,
      results, after, now, cert>>

NoNow == [year |-> 0, month |-> 0, day |-> 0]

Init ==
    /\ pc = "read_dir"
    /\ listing = <<>>
    /\ io_error = "none"
    /\ warnings = 0
    /\ output = "none"
    /\ decoder_calls = 0
    /\ cmd = <<>>
    /\ set_calls = 0
    /\ results = NoResults
    /\ after = <<>>
    /\ now = NoNow
    /\ cert = NoDate

(* line 42: read_dir succeeds *)
ReadDirOk ==
    /\ pc = "read_dir"
    /\ pc' = "for"
    /\ UNCHANGED <<listing, io_error, warnings, output, decoder_calls, cmd,
                   set_calls, results, after, now, cert>>

(* line 42: read_dir fails and try! returns the error *)
ReadDirErr ==
    /\ pc = "read_dir"
    /\ pc' = "Err"
    /\ io_error' = "read_dir"
    /\ UNCHANGED <<listing, warnings, output, decoder_calls, cmd, set_calls,
                   results, after, now, cert>>

(* lines 44, 187-194: the iterator is exhausted, the summary is printed *)
DirEnd ==
    /\ pc = "for"
    /\ pc' = "Ok"
    /\ UNCHANGED <<listing, io_error, warnings, output, decoder_calls, cmd,
                   set_calls, results, after, now, cert>>

(* lines 47-55, 187-194: an entry cannot be read: warning, break, Ok(()).  *)
(* EntryErrReturnsErr is the faulty variant that propagates the error.      *)
EntryErrReturnsErr ==
    /\ pc = "for"
    /\ Len(listing) < MaxEntries
    /\ io_error' = "entry"
    /\ pc' = "Err"
    /\ UNCHANGED <<listing, warnings, output, decoder_calls, cmd, set_calls,
                   results, after, now, cert>>

EntryErr ==
    /\ pc = "for"
    /\ Len(listing) < MaxEntries
    /\ io_error' = "entry"
    /\ warnings' = warnings + 1
    /\ pc' = "Ok"
    /\ UNCHANGED <<listing, output, decoder_calls, cmd, set_calls, results,
                   after, now, cert>>

(* lines 58-61: a file name that is not UTF-8: into_string().unwrap() panics *)
EntryNotUtf8 ==
    /\ pc = "for"
    /\ Len(listing) < MaxEntries
    /\ pc' = "panic"
    /\ UNCHANGED <<listing, io_error, warnings, output, decoder_calls, cmd,
                   set_calls, results, after, now, cert>>

(* lines 58-73: an entry is read and classified *)
Entry ==
    /\ pc = "for"
    /\ Len(listing) < MaxEntries
    /\ \E name \in FileNames :
          /\ listing' = Append(listing, name)
          /\ pc' = IF is_cert(name) THEN "openssl" ELSE "for"
    /\ UNCHANGED <<io_error, warnings, output, decoder_calls, cmd, set_calls,
                   results, after, now, cert>>

(* lines 74-91: openssl cannot be launched: exit *)
OpensslSpawnErr ==
    /\ pc = "openssl"
    /\ output' = "spawn_err"
    /\ decoder_calls' = decoder_calls + 1
    /\ pc' = "exit"
    /\ UNCHANGED <<listing, io_error, warnings, cmd, set_calls, results, after, now, cert>>

(* lines 74-99: openssl ends with a non-zero status: exit.                  *)
(* OpensslExitErrSkipsCandidate is the faulty variant that goes on with     *)
(* the next entry.                                                          *)
OpensslExitErrSkipsCandidate ==
    /\ pc = "openssl"
    /\ output' = "exit_err"
    /\ decoder_calls' = decoder_calls + 1
    /\ pc' = "for"
    /\ UNCHANGED <<listing, io_error, warnings, cmd, set_calls, results, after, now, cert>>

OpensslExitErr ==
    /\ pc = "openssl"
    /\ output' = "exit_err"
    /\ decoder_calls' = decoder_calls + 1
    /\ pc' = "exit"
    /\ UNCHANGED <<listing, io_error, warnings, cmd, set_calls, results, after, now, cert>>

(* lines 74-108: openssl succeeds; its stdout is stored as the certificate. *)
(* OpensslOkKeepsFirst is the faulty variant that never replaces a stored    *)
(* text.                                                                     *)
OpensslOkKeepsFirst ==
    /\ pc = "openssl"
    /\ output' = "ok"
    /\ decoder_calls' = decoder_calls + 1
    /\ \E stdout \in Texts :
          /\ cmd' = stdout
          /\ results' = IF results.certificate.some THEN results
                        ELSE set_certificate(results, stdout)
    /\ set_calls' = set_calls + 1
    /\ pc' = "issuer"
    /\ UNCHANGED <<listing, io_error, warnings, after, now, cert>>

OpensslOk ==
    /\ pc = "openssl"
    /\ output' = "ok"
    /\ decoder_calls' = decoder_calls + 1
    /\ \E stdout \in Texts :
          /\ cmd' = stdout
          /\ results' = set_certificate(results, stdout)
    /\ set_calls' = set_calls + 1
    /\ pc' = "issuer"
    /\ UNCHANGED <<listing, io_error, warnings, after, now, cert>>

(* lines 110-149: the field scan and the debug-certificate check *)
IssuerChecked(fields, issuer) ==
    /\ after' = fields.after
    /\ IF ~issuer.some
       THEN /\ pc' = "panic"
            /\ results' = results
       ELSE /\ pc' = "expiry"
            /\ results' = IF contains(issuer.val, <<"A","n","d","r","o","i","d"," ","D","e","b","u","g">>)
                          THEN add_vulnerability(results, DebugVulnerability)
                          ELSE results

IssuerScanned(fields) == IssuerChecked(fields, issuer_value(fields.issuer))

IssuerCheck ==
    /\ pc = "issuer"
    /\ IssuerScanned(scan(cmd))
    /\ UNCHANGED <<listing, io_error, warnings, output, decoder_calls, cmd,
                   set_calls, now, cert>>

(* lines 151-183: the clock is read, the not-after date parsed and compared *)
ExpiryChecked(date) ==
    \E today \in Nows :
       /\ now' = today
       /\ cert' = date
       /\ IF ~date.ok
          THEN /\ pc' = "panic"
               /\ results' = results
          ELSE /\ pc' = "for"
               /\ results' =
                     IF expired(today.year, today.month, today.day,
                                date.year, date.month, date.day)
                     THEN add_vulnerability(results, ExpiredVulnerability)
                     ELSE results

ExpiryCheck ==
    /\ pc = "expiry"
    /\ ExpiryChecked(not_after(after))
    /\ UNCHANGED <<listing, io_error, warnings, output, decoder_calls, cmd,
                   set_calls, after>>

Next ==
    \/ ReadDirOk
    \/ ReadDirErr
    \/ DirEnd
    \/ EntryErr
    \/ EntryNotUtf8
    \/ Entry
    \/ OpensslSpawnErr
    \/ OpensslExitErr
    \/ OpensslOk
    \/ IssuerCheck
    \/ ExpiryCheck

Spec == Init /\ [][Next]_vars

----------------------------------------------------------------------------
(* The date parser on its own: the expiration check started on every       *)
(* not-after line of the layout "MMM DD HH:MM:SS YYYY GMT", as openssl     *)
(* prints it (a one-digit day is padded with a space)                      *)
MonthNames ==
    << <<"J","a","n">>, <<"F","e","b">>, <<"M","a","r">>, <<"A","p","r">>, <<"M","a","y">>, <<"J","u","n">>,
       <<"J","u","l">>, <<"A","u","g">>, <<"S","e","p">>, <<"O","c","t">>, <<"N","o","v">>, <<"D","e","c">> >>

DigitSeq == <<"0", "1", "2", "3", "4", "5", "6", "7", "8", "9">>

digit_char(n) == DigitSeq[n + 1]

LaidOutDates == [year : {1999, 2000, 2001}, month : 1..12, day : 1..31]

Layout(t) ==
    MonthNames[t.month]
    \o (IF t.day < 10 THEN <<" ", " ", digit_char(t.day)>>
        ELSE <<" ", digit_char(t.day \div 10), digit_char(t.day % 10)>>)
    \o <<" ","0","0",":","0","0",":","0","0"," ">>
    \o <<digit_char(t.year \div 1000), digit_char((t.year \div 100) % 10),
         digit_char((t.year \div 10) % 10), digit_char(t.year % 10)>>
    \o <<" ","G","M","T">>

NotAfterLine(t) == <<" "," "," "," "," "," "," "," "," "," "," "," ","N","o","t"," ","A","f","t","e","r"," ",":"," ">> \o Layout(t)

LaidOutLine == [t \in LaidOutDates |-> NotAfterLine(t)]

LaidOutText == [t \in LaidOutDates |-> text_of(<<Line_IssuerAcme, LaidOutLine[t]>>)]

InitDate ==
    \E t \in LaidOutDates :
       /\ pc = "expiry"
       /\ listing = << <<"C","E","R","T",".","R","S","A">> >>
       /\ io_error = "none"
       /\ warnings = 0
       /\ output = "ok"
       /\ decoder_calls = 1
       /\ cmd = LaidOutText[t]
       /\ set_calls = 1
       /\ results = set_certificate(NoResults, LaidOutText[t])
       /\ after = LaidOutLine[t]
       /\ now = NoNow
       /\ cert = NoDate

NextDate == ExpiryCheck

SpecDate == InitDate /\ [][NextDate]_vars

----------------------------------------------------------------------------
(* Properties *)

Last(seq) == seq[Len(seq)]

CountName(vulns, name) == Cardinality({i \in DOMAIN vulns : vulns[i].name = name})

\* C1: an expiration check that completes appends exactly one High finding
\* "Expired certificate" when year > cert_year, or the years are equal and
\* month > cert_month, or years and months are equal and day > cert_day; in
\* every other case (the two dates being equal included) it appends nothing.
C1_ExpiredFindingRule ==
    [][ (pc = "expiry" /\ pc' = "for") =>
          IF \/ now'.year > cert'.year
             \/ (now'.year = cert'.year /\ now'.month > cert'.month)
             \/ (now'.year = cert'.year /\ now'.month = cert'.month
                                        /\ now'.day > cert'.day)
          THEN results'.vulns =
                  Append(results.vulns,
                         [criticity |-> "High", name |-> "Expired certificate"])
          ELSE results'.vulns = results.vulns ]_vars

C1_Witness ==
    /\ pc = "for"
    /\ cert.ok
    /\ now.year = cert.year /\ now.month = cert.month /\ now.day > cert.day
    /\ CountName(results.vulns, "Expired certificate") = 1
    /\ Last(results.vulns) = [criticity |-> "High", name |-> "Expired certificate"]

(* the issuer value as the claim describes it: on the last line containing  *)
(* "Issuer:", the text between the first and the second ": "                *)
C2_UpToSeparator(rest, p) == IF p = 0 THEN rest ELSE SubSeq(rest, 1, p - 1)

C2_FirstField(rest) == C2_UpToSeparator(rest, find_from(rest, <<":"," ">>, 1))

C2_AfterSeparator(line, p) ==
    IF p = 0 THEN None ELSE Some(C2_FirstField(SubSeq(line, p + 2, Len(line))))

C2_LastIssuerLine(ls, hits) ==
    IF hits = {} THEN <<>> ELSE ls[CHOOSE i \in hits : \A j \in hits : j <= i]

C2_ValueOfLine(line) == C2_AfterSeparator(line, find_from(line, <<":"," ">>, 1))

C2_ValueIn(ls) ==
    C2_ValueOfLine(
        C2_LastIssuerLine(ls, {i \in DOMAIN ls : contains(ls[i], <<"I","s","s","u","e","r",":">>)}))

C2_HasDebugIssuer(text) == contains(C2_ValueIn(lines(text)).val, <<"A","n","d","r","o","i","d"," ","D","e","b","u","g">>)

\* C2: the debug check appends exactly one Critical finding "Android Debug
\* Certificate" if and only if the issuer value (last line containing
\* "Issuer:", text between its first and second ": ") contains "Android
\* Debug"; otherwise it appends nothing, and no other step appends one.
C2_DebugFindingRule ==
    /\ [][ pc = "issuer" =>
             IF C2_HasDebugIssuer(cmd)
             THEN results'.vulns =
                     Append(results.vulns,
                            [criticity |-> "Critical",
                             name |-> "Android Debug Certificate"])
             ELSE results'.vulns = results.vulns ]_vars
    /\ [][ pc # "issuer" =>
             CountName(results'.vulns, "Android Debug Certificate")
                = CountName(results.vulns, "Android Debug Certificate") ]_vars

C2_Witness ==
    /\ pc = "expiry"
    /\ cmd = Text_ChainDebugLast
    /\ set_calls = 1
    /\ results.vulns = <<[criticity |-> "Critical", name |-> "Android Debug Certificate"]>>

\* C3: for a not-after value laid out as "MMM DD HH:MM:SS YYYY GMT" with a
\* month of Jan..Dec and the day space-padded to two characters, the parsed
\* date is (YYYY, the month's number, the day's value).
C3_DateParserCorrect ==
    pc # "expiry" =>
        \A t \in LaidOutDates :
            after = LaidOutLine[t] =>
                cert = [ok |-> TRUE, year |-> t.year, month |-> t.month, day |-> t.day]

C3_Witness ==
    /\ pc = "for"
    /\ after = NotAfterLine([year |-> 2000, month |-> 12, day |-> 5])
    /\ cert = [ok |-> TRUE, year |-> 2000, month |-> 12, day |-> 5]

C4_CertExtension(name) == extension(name) \in {Some(<<"R","S","A">>), Some(<<"D","S","A">>)}

C4_NoCandidate(names) == \A i \in DOMAIN names : ~C4_CertExtension(names[i])

\* C4: openssl is run only for an entry whose extension is exactly RSA or
\* DSA; any other entry is passed over with no decoder run and no write to
\* the results store, so as long as no such file was listed there are zero
\* decoder runs, zero findings and no certificate text.
C4_OnlyCertificatesDecoded ==
    /\ [][ decoder_calls' # decoder_calls =>
             (Len(listing) > 0 /\ C4_CertExtension(Last(listing))) ]_vars
    /\ [][ (Len(listing') > Len(listing) /\ ~C4_CertExtension(Last(listing'))) =>
             (pc' = "for" /\ UNCHANGED <<results, decoder_calls, set_calls, cmd>>) ]_vars
    /\ [](C4_NoCandidate(listing) =>
             (decoder_calls = 0 /\ set_calls = 0 /\ results = NoResults))

C4_Witness ==
    /\ pc = "Ok"
    /\ listing = << <<"C","E","R","T",".","r","s","a">>, <<".","R","S","A">> >>
    /\ decoder_calls = 0
    /\ results = NoResults

\* C5: when openssl cannot be launched or ends with a non-zero status the
\* process exits there: nothing is written for that candidate, what earlier
\* candidates wrote stays as it is, and nothing happens afterwards (no later
\* entry is decoded, the analysis never returns).
C5_DecoderFailureExits ==
    /\ [][ (pc = "openssl" /\ output' \in {"spawn_err", "exit_err"}) =>
             (pc' = "exit" /\ UNCHANGED <<results, set_calls, cmd, listing>>) ]_vars
    /\ [][ (pc = "openssl" /\ pc' # "exit") => output' = "ok" ]_vars
    /\ [][ pc = "exit" => vars' = vars ]_vars

C5_Witness ==
    /\ pc = "exit"
    /\ output = "exit_err"
    /\ decoder_calls = 2
    /\ set_calls = 1
    /\ results.certificate = Some(cmd)
    /\ Len(results.vulns) = 2

\* C6 as stated: every directory-read failure, on opening the directory or
\* on reading an entry, gives a warning, keeps the results and returns Ok.
C6_Original ==
    [][ (io_error = "none" /\ io_error' # "none") =>
          (pc' = "Ok" /\ warnings' = warnings + 1 /\ results' = results) ]_vars

\* C6 amended: a failure to read an entry gives one warning, stops the
\* enumeration, keeps the results and returns Ok; a failure to open the
\* directory returns the error, with no warning and nothing written.
C6_Amended ==
    /\ [][ (io_error = "none" /\ io_error' = "entry") =>
             (pc' = "Ok" /\ warnings' = warnings + 1
                /\ UNCHANGED <<results, set_calls, decoder_calls, listing>>) ]_vars
    /\ [][ (io_error = "none" /\ io_error' = "read_dir") =>
             (pc' = "Err" /\ warnings' = warnings /\ results' = results
                /\ results = NoResults) ]_vars
    /\ [][ (pc \in {"Ok", "Err"}) => vars' = vars ]_vars

C6_Witness ==
    /\ pc = "Ok"
    /\ io_error = "entry"
    /\ warnings = 1
    /\ results.certificate.some
    /\ Len(results.vulns) = 2

\* C7 as stated: a candidate whose decoded text lacks any one of the three
\* labelled lines never completes normally.
C7_Original ==
    [][ (pc = "expiry" /\ pc' = "for") =>
          (contains(cmd, <<"I","s","s","u","e","r",":">>) /\ contains(cmd, <<"S","u","b","j","e","c","t",":">>)
             /\ contains(cmd, <<"N","o","t"," ","A","f","t","e","r"," ",":">>)) ]_vars

\* C7 amended: a candidate whose decoded text lacks a line containing
\* "Issuer:" or a line containing "Not After :" ends in a panic, and nothing
\* happens afterwards (a missing "Subject:" line alone is no failure).
C7_Amended ==
    /\ [][ (pc = "issuer" /\ ~contains(cmd, <<"I","s","s","u","e","r",":">>)) => pc' = "panic" ]_vars
    /\ [][ (pc = "expiry" /\ ~contains(cmd, <<"N","o","t"," ","A","f","t","e","r"," ",":">>)) => pc' = "panic" ]_vars
    /\ [][ pc = "panic" => vars' = vars ]_vars

C7_Witness ==
    /\ pc = "panic"
    /\ cmd = Text_NoAfter
    /\ Len(results.vulns) = 1

C8_Abbreviation(v) == IF v.some /\ Len(v.val) >= 3 THEN SubSeq(v.val, 1, 3) ELSE <<>>

C8_Unrecognized(line) ==
    \A m \in DOMAIN MonthNames : C8_Abbreviation(after_value(line)) # MonthNames[m]

\* C8: a not-after month outside Jan..Dec parses to 0, and for a current
\* year not greater than the certificate's year no "Expired certificate"
\* finding is appended for such a certificate.
C8_UnrecognizedMonthNotExpired ==
    [][ (pc = "expiry" /\ pc' = "for" /\ C8_Unrecognized(after)) =>
          /\ cert'.month = 0
          /\ (now'.year <= cert'.year => results'.vulns = results.vulns) ]_vars

C9_Candidates(names) == Cardinality({i \in DOMAIN names : C4_CertExtension(names[i])})

\* C9 as stated: over a complete run with one or more candidates, the
\* certificate text is written exactly once, and is the last candidate's.
C9_Original ==
    (pc = "Ok" /\ decoder_calls >= 1) =>
        (set_calls = 1 /\ results.certificate = Some(cmd))

\* C9 amended: over a complete run the certificate text is written once per
\* candidate (as many times as RSA/DSA files were listed), and the text
\* stored at the end is the decoder output of the last candidate.
C9_Amended ==
    (pc = "Ok" /\ C9_Candidates(listing) >= 1) =>
        (set_calls = C9_Candidates(listing) /\ results.certificate = Some(cmd))

C9_Witness ==
    /\ pc = "Ok"
    /\ C9_Candidates(listing) = 2
    /\ set_calls = 2
    /\ cmd = Text_Acme
    /\ results.certificate = Some(Text_Acme)
    /\ CountName(results.vulns, "Android Debug Certificate") = 1

(* the strict lexicographic order on triples *)
C10_LexGreater(a, b) ==
    \E i \in 1..3 : a[i] > b[i] /\ \A j \in 1..(i - 1) : a[j] = b[j]

\* C10 as stated: some current date and certificate date with different
\* years and different months get a result from the check that differs from
\* the strict lexicographic test (year, month, day) > (cert_year, cert_month,
\* cert_day).
C10_Original ==
    \E n \in Nows \cup {now},
       c \in LaidOutDates \cup {[year |-> cert.year, month |-> cert.month, day |-> cert.day]} :
        /\ n.year # c.year
        /\ n.month # c.month
        /\ expired(n.year, n.month, n.day, c.year, c.month, c.day)
             # C10_LexGreater(<<n.year, n.month, n.day>>, <<c.year, c.month, c.day>>)

\* C10 amended: the check is the strict lexicographic comparison: for every
\* current date and certificate date, different years and months included,
\* a finding is appended exactly when (year, month, day) > (cert_year,
\* cert_month, cert_day) lexicographically.
C10_Amended ==
    [][ (pc = "expiry" /\ pc' = "for") =>
          ((results'.vulns # results.vulns)
             <=> C10_LexGreater(<<now'.year, now'.month, now'.day>>,
                                <<cert'.year, cert'.month, cert'.day>>)) ]_vars

C10_Witness ==
    /\ pc = "for"
    /\ cert.ok
    /\ now.year < cert.year
    /\ now.month > cert.month
    /\ results.vulns = <<>>
====
